---- MODULE Spec2Model ----
(***************************************************************************)
(* Model of lib/client/clouddns.js (the CloudDns client mixin) together    *)
(* with the Status poller (waitForResult) it drives.                       *)
(*                                                                         *)
(* Every public operation is one invocation in a slot of Ops.  A slot      *)
(* records the arguments of the invocation, every authorizedRequest call   *)
(* it issued, the transport response its handler consumed, and each        *)
(* invocation of the caller's callback.  Slots run concurrently: their     *)
(* transport callbacks interleave in any order.                            *)
(*                                                                         *)
(* JavaScript values are tagged records (Val); a value is truthy unless    *)
(* its tag is "undef".  Response bodies are records of one shape (Body).   *)
(***************************************************************************)
EXTENDS Naturals, Sequences, FiniteSets

VARIABLES ops

vars == << ops >>

\* ------------------------------------------------------------------ bounds

MaxBatch == 2       \* longest array of domains passed to an operation
MaxPolls == 2       \* attempt budget of one wait (the bounded-budget hardening)

Ops == {"op1", "op2"}   \* concurrently running invocations

\* HTTP status code the service uses for an accepted asynchronous mutation
Accepted == 202

StatusCodes == {Accepted, 404}

\* ------------------------------------------------------------ JS values

NoIds == << >>

Body(k, domains, status, error, resp, respDomains) ==
    [k |-> k, domains |-> domains, status |-> status, error |-> error,
     resp |-> resp, respDomains |-> respDomains]

\* body === undefined
UndefBody == Body("undef", NoIds, "", 0, "none", NoIds)
\* a JSON object carrying neither domains nor a job: a service fault document
FaultBody == Body("fault", NoIds, "", 0, "none", NoIds)
\* the body of GET /domains/<id>: one domain, its id kept as domains[1]
DomainBody(i) == Body("domain", << i >>, "", 0, "none", NoIds)
\* the body of GET /domains
ListBody(l) == Body("list", l, "", 0, "none", NoIds)
\* the body of an asynchronous job: status, and error or response
JobBody(st, e, r, rl) == Body("job", NoIds, st, e, r, rl)

DomainLists == { << >>, << 1 >>, << 2, 1 >> }

ErrorPayloads == {1, 2}

\* Job documents the service produces: error only with ERROR, response only
\* with COMPLETED (a response may lack its domains member, or be missing)
JobBodies ==
    { JobBody("RUNNING", 0, "none", NoIds) }
    \cup { JobBody("ERROR", e, "none", NoIds) : e \in ErrorPayloads }
    \cup { JobBody("COMPLETED", 0, "none", NoIds),
           JobBody("COMPLETED", 0, "nodomains", NoIds) }
    \cup { JobBody("COMPLETED", 0, "domains", l) : l \in DomainLists }

Val(t, b, l, p) == [t |-> t, b |-> b, l |-> l, p |-> p]

Undefined == Val("undef", UndefBody, NoIds, 0)
\* an error object of the transport, told apart by its code
TransportError(n) == Val("transportError", UndefBody, NoIds, n)
TransportErrors == { TransportError(n) : n \in {1, 2} }
UnknownError == Val("unknownError", UndefBody, NoIds, 0)
InvalidRequest == Val("invalidRequest", UndefBody, NoIds, 0)
TimeoutError == Val("timeoutError", UndefBody, NoIds, 0)

\* a parsed body used as a value: undefined stays undefined
BodyVal(b) == IF b.k = "undef" THEN Undefined ELSE Val("body", b, NoIds, 0)
\* status.error of a snapshot: the payload object, or undefined
ErrorOf(b) == IF b.error = 0 THEN Undefined ELSE Val("payload", UndefBody, NoIds, b.error)

Truthy(v) == v.t # "undef"

\* what authorizedRequest hands its callback: (err, res, body)
Response(err, code, body) == [err |-> err, code |-> code, body |-> body]

NoResponse == Response(Undefined, 0, UndefBody)
FailedResponses == { Response(e, 0, UndefBody) : e \in TransportErrors }

\* ------------------------------------------------------------ arguments

\* One element of a domains array.  name, emailAddress: the member is
\* present and truthy; rec: type and data are both present and truthy.
Item(id, name, emailAddress, rec) ==
    [id |-> id, name |-> name, emailAddress |-> emailAddress, rec |-> rec]

\* details of a domain to create: complete, or lacking one required member
CreateItems == { Item(0, TRUE, TRUE, FALSE),
                 Item(0, FALSE, TRUE, FALSE),
                 Item(0, TRUE, FALSE, FALSE) }

Batches(S) == UNION { [1..n -> S] : n \in 0..MaxBatch }

Arg(items, ctype, contents, delSub) ==
    [items |-> items, ctype |-> ctype, contents |-> contents, delSub |-> delSub]

NoArg == Arg(<< >>, "", FALSE, "na")

\* details of importDomain: contentType absent (""), BIND_9 or another
\* type; contents present or not
ImportArgs == { Arg(<< >>, c, t, "na") : c \in {"", "BIND_9", "OTHER"}, t \in BOOLEAN }

Request(method, uri, data) == [method |-> method, uri |-> uri, data |-> data]

\* --------------------------------------------- results of a piece of code

\* callback(err, res)
Callback(err, res) == [ev |-> "callback", err |-> err, res |-> res]
\* an exception leaves the function
Throw == [ev |-> "throw", err |-> Undefined, res |-> Undefined]
\* status.waitForResult(...) is called on res
StartWait(status) == [ev |-> "wait", err |-> Undefined, res |-> status]
\* the function returns and nothing else happens
Return == [ev |-> "return", err |-> Undefined, res |-> Undefined]

Status(body) == Val("Status", body, NoIds, 0)
Domain(body) == Val("Domain", body, NoIds, 0)
\* an array of Domain objects, one per element of l
DomainArray(l) == Val("DomainArray", UndefBody, l, 0)

\* --------------------------------------------------------- getDomains

getDomainsHandler(r) ==
    IF Truthy(r.err) THEN Callback(r.err, Undefined)
    ELSE IF r.body.k = "undef" THEN Throw
    ELSE IF r.body.k # "list" THEN Callback(r.err, Undefined)
    ELSE Callback(r.err, DomainArray(r.body.domains))

\* --------------------------------------------------------- getDomain

getDomainHandler(r) ==
    IF Truthy(r.err) \/ r.body.k = "undef" THEN Callback(r.err, Undefined)
    ELSE Callback(r.err, Domain(r.body))

\* --------------------------------------------------------- createDomains

\* the forEach over ['name', 'emailAddress'] for one domain
HasRequired(domain) == domain.name /\ domain.emailAddress

\* mutant: only the first domain of the array is validated
createDomainsValidFirstOnly(domains) ==
    Len(domains) = 0 \/ HasRequired(domains[1])

\* _.each(domains, ...) returns without throwing
createDomainsValid(domains) == \A i \in 1..Len(domains) : HasRequired(domains[i])

\* listOfDomains: name and emailAddress of every domain, in order
listOfDomains(domains) ==
    [i \in 1..Len(domains) |->
        Item(0, domains[i].name, domains[i].emailAddress, FALSE)]

createDomainsRequest(domains) ==
    Request("POST", "/domains", Arg(listOfDomains(domains), "", FALSE, "na"))

\* mutant: the two arms of err ? err : body are swapped
createDomainsHandlerSwapped(r) ==
    IF Truthy(r.err) \/ r.code # Accepted
    THEN Callback(IF Truthy(r.err) THEN BodyVal(r.body) ELSE r.err, Undefined)
    ELSE Callback(r.err, Status(r.body))

createDomainsHandler(r) ==
    IF Truthy(r.err) \/ r.code # Accepted
    THEN Callback(IF Truthy(r.err) THEN r.err ELSE BodyVal(r.body), Undefined)
    ELSE Callback(r.err, Status(r.body))

\* --------------------------------------------------------- createDomain

\* domains && domains.length === 1
IsArrayOfOne(v) == v.t = "DomainArray" /\ Len(v.l) = 1

\* the function createDomain passes to createDomains, applied to (err, domains)
createDomainInner(err, domains) ==
    IF Truthy(err) THEN Callback(err, Undefined)
    ELSE IF IsArrayOfOne(domains)
         THEN Callback(err, Domain(DomainBody(domains.l[1])))
         ELSE Callback(UnknownError, domains)

createDomainHandler(r) ==
    LET c == createDomainsHandler(r) IN createDomainInner(c.err, c.res)

\* -------------------------------------------------- createDomainsWithWait

\* the function createDomainsWithWait passes to createDomains
createDomainsWithWaitInner(err, status) ==
    IF Truthy(err) THEN Callback(err, Undefined)
    ELSE IF status.t = "undef" THEN Throw
    ELSE StartWait(status)

\* mutant: the wait is started on the body whatever createDomains reported
createDomainsWithWaitHandlerEager(r) == StartWait(Status(r.body))

createDomainsWithWaitHandler(r) ==
    LET c == createDomainsHandler(r) IN createDomainsWithWaitInner(c.err, c.res)

\* status.response.domains when both exist
ResponseDomains(status) ==
    IF status.b.resp = "domains" THEN status.b.respDomains ELSE << >>

\* mutant: a failed wait returns without telling the caller
createDomainsWithWaitDoneSilent(err, status) ==
    IF Truthy(err) THEN Return
    ELSE IF Truthy(ErrorOf(status.b)) THEN Callback(ErrorOf(status.b), Undefined)
    ELSE Callback(err, DomainArray(ResponseDomains(status)))

\* mutant: status.error is not looked at
createDomainsWithWaitDoneNoError(err, status) ==
    IF Truthy(err) THEN Callback(err, Undefined)
    ELSE Callback(err, DomainArray(ResponseDomains(status)))

\* the function createDomainsWithWait passes to status.waitForResult
createDomainsWithWaitDone(err, status) ==
    IF Truthy(err) \/ Truthy(ErrorOf(status.b))
    THEN Callback(IF Truthy(err) THEN err ELSE ErrorOf(status.b), Undefined)
    ELSE Callback(err, DomainArray(ResponseDomains(status)))

\* --------------------------------------------------------- importDomain

importDomainValid(details) == details.ctype # "" /\ details.contents

importDomainRequest(details) ==
    Request("POST", "/domains/import", Arg(<< >>, details.ctype, details.contents, "na"))

importDomainHandler(r) ==
    IF Truthy(r.err) \/ r.code # Accepted THEN Callback(r.err, Undefined)
    ELSE Callback(r.err, Status(r.body))

\* --------------------------------------------------------- updateDomains

\* the domains that are not skipped, as id/ttl/emailAddress/comment updates
updateData(domains) ==
    LET kept == SelectSeq(domains, LAMBDA d : d.rec /\ d.name)
    IN [i \in 1..Len(kept) |-> Item(kept[i].id, FALSE, kept[i].emailAddress, FALSE)]

updateDomainsRequest(domains) ==
    Request("PUT", "/domains/<self.id>", Arg(updateData(domains), "", FALSE, "na"))

updateDomainsHandler(r) ==
    IF Truthy(r.err) \/ r.code # Accepted THEN Callback(r.err, Undefined)
    ELSE Callback(r.err, Status(r.body))

\* --------------------------------------------------------- deleteDomains

domainIds(domains) ==
    [i \in 1..Len(domains) |-> Item(domains[i].id, FALSE, FALSE, FALSE)]

\* typeof(deleteSubdomains) === 'function': the flag defaults to true
deleteSubdomainsFlag(given) == IF given = "omitted" THEN "true" ELSE given

deleteDomainsRequest(domains, deleteSubdomains) ==
    Request("DELETE", "/domains/",
            Arg(domainIds(domains), "", FALSE, deleteSubdomainsFlag(deleteSubdomains)))

deleteDomainsHandler(r) ==
    IF Truthy(r.err) \/ r.code # Accepted THEN Callback(r.err, Undefined)
    ELSE Callback(r.err, Status(r.body))

\* ------------------------------------------------------------ transport

\* answers to GET /domains and GET /domains/<id>
GetResponses ==
    FailedResponses
    \cup { Response(Undefined, 200, b) :
             b \in {UndefBody, FaultBody, DomainBody(1)}
                   \cup { ListBody(l) : l \in DomainLists } }

\* job documents of a 202 answer: the job is usually still running, and may
\* already have ended
AcceptedBodies ==
    { JobBody("RUNNING", 0, "none", NoIds),
      JobBody("ERROR", 1, "none", NoIds),
      JobBody("COMPLETED", 0, "domains", << 2, 1 >>) }

\* answers to a mutating request: accepted with a job, or refused
SubmitResponses ==
    FailedResponses
    \cup { Response(Undefined, Accepted, b) : b \in AcceptedBodies }
    \cup { Response(Undefined, c, b) :
             c \in StatusCodes \ {Accepted}, b \in {UndefBody, FaultBody} }

\* answers to a poll of a job
PollResponses ==
    FailedResponses
    \cup { Response(Undefined, 200, b) : b \in JobBodies }
    \cup { Response(Undefined, 404, FaultBody) }

\* ------------------------------------------------------------ invocations

\* a slot before its operation is invoked
Idle ==
    [pc |-> "idle", kind |-> "", arg |-> NoArg, reqs |-> << >>,
     resp |-> NoResponse, calls |-> << >>, waits |-> 0, snap |-> UndefBody,
     running |-> 0, polls |-> 0, answered |-> 0, hist |-> << >>, resolved |-> 0]

Invoked(kind, arg) == [Idle EXCEPT !.kind = kind, !.arg = arg]

\* self.authorizedRequest(requestOptions, handler)
authorizedRequest(rec, req) ==
    [rec EXCEPT !.pc = "pending", !.reqs = Append(@, req)]

\* the effect of a piece of code that ran for the invocation rec: the caller's
\* callback is invoked, or an exception escapes (to the caller while the
\* operation is being invoked, to the event loop from a transport callback)
Deliver(rec, out) ==
    CASE out.ev = "callback" ->
           [rec EXCEPT !.pc = "done",
                       !.calls = Append(@, [err |-> out.err, res |-> out.res])]
      [] out.ev = "throw" ->
           [rec EXCEPT !.pc = IF rec.pc = "idle" THEN "thrown" ELSE "crashed"]
      [] OTHER -> [rec EXCEPT !.pc = "lost"]

\* ----------------------------------------------- Status.waitForResult
\* The Status class lives outside lib/client/clouddns.js.  Its poller follows
\* the design of the Status Poller: re-fetch while RUNNING, one poll at a time
\* after a delay, stop at COMPLETED or ERROR, abort on a failed poll, and give
\* up with TimeoutError once MaxPolls polls have all said RUNNING.

\* the wait ends: the function given to waitForResult gets (err, status)
Resolve(rec, err, status) ==
    Deliver([rec EXCEPT !.resolved = @ + 1], createDomainsWithWaitDone(err, status))

\* How a wait that ends in ERROR hands over the failure: as the err argument
\* ("failure"), or as the error member of the final snapshot ("snapshot").
ErrorForms == {"failure", "snapshot"}

\* the snapshot in hand is inspected
Observe(rec, form) ==
    IF rec.snap.status = "RUNNING"
    THEN LET r == [rec EXCEPT !.running = @ + 1]
         IN IF r.polls < MaxPolls
            THEN [r EXCEPT !.pc = "delay"]
            ELSE Resolve(r, TimeoutError, Undefined)
    ELSE IF rec.snap.status = "ERROR" /\ form = "failure"
    THEN Resolve(rec, ErrorOf(rec.snap), Status(rec.snap))
    ELSE Resolve(rec, Undefined, Status(rec.snap))

\* status.waitForResult(done)
waitForResult(rec, status, form) ==
    Observe([rec EXCEPT !.waits = @ + 1, !.snap = status.b], form)

\* the request of one poll round
PollRequest == Request("GET", "/status/<jobId>", NoArg)

\* the inter-poll delay elapsed: one poll is issued
IssuePoll(rec) ==
    [rec EXCEPT !.pc = "polling", !.polls = @ + 1, !.reqs = Append(@, PollRequest)]

\* the answer to the outstanding poll
PollAnswered(rec, r, form) ==
    LET a == [rec EXCEPT !.answered = @ + 1, !.hist = Append(@, r)]
    IN IF Truthy(r.err) THEN Resolve(a, r.err, Undefined)
       ELSE IF r.code # 200 THEN Resolve(a, BodyVal(r.body), Undefined)
       ELSE Observe([a EXCEPT !.snap = r.body], form)

\* the transport answered r and the operation's handler ran with result out
Handled(rec, r, out) == Deliver([rec EXCEPT !.resp = r], out)

\* the same for createDomainsWithWait, whose handler may start a wait
HandledWithWait(rec, r, out, form) ==
    IF out.ev = "wait"
    THEN waitForResult([rec EXCEPT !.resp = r], out.res, form)
    ELSE Handled(rec, r, out)

\* ---------------------------------------------------------------- actions

Init == ops = [o \in Ops |-> Idle]

getDomains(o) ==
    /\ ops[o].pc = "idle"
    /\ ops' = [ops EXCEPT ![o] =
                 authorizedRequest(Invoked("getDomains", NoArg),
                                   Request("GET", "/domains", NoArg))]

getDomainsResponse(o, r) ==
    /\ ops[o].pc = "pending" /\ ops[o].kind = "getDomains"
    /\ ops' = [ops EXCEPT ![o] = Handled(@, r, getDomainsHandler(r))]

getDomain(o) ==
    /\ ops[o].pc = "idle"
    /\ ops' = [ops EXCEPT ![o] =
                 authorizedRequest(Invoked("getDomain", NoArg),
                                   Request("GET", "/domains/<id>", NoArg))]

getDomainResponse(o, r) ==
    /\ ops[o].pc = "pending" /\ ops[o].kind = "getDomain"
    /\ ops' = [ops EXCEPT ![o] = Handled(@, r, getDomainHandler(r))]

\* createDomains as called by kind (createDomains itself or a wrapper of it)
createDomainsCall(kind, domains) ==
    LET rec == Invoked(kind, Arg(domains, "", FALSE, "na"))
    IN IF createDomainsValid(domains)
       THEN authorizedRequest(rec, createDomainsRequest(domains))
       ELSE Deliver(rec, Throw)

createDomain(o, details) ==
    /\ ops[o].pc = "idle"
    /\ ops' = [ops EXCEPT ![o] = createDomainsCall("createDomain", << details >>)]

createDomainResponse(o, r) ==
    /\ ops[o].pc = "pending" /\ ops[o].kind = "createDomain"
    /\ ops' = [ops EXCEPT ![o] = Handled(@, r, createDomainHandler(r))]

createDomains(o, domains) ==
    /\ ops[o].pc = "idle"
    /\ ops' = [ops EXCEPT ![o] = createDomainsCall("createDomains", domains)]

createDomainsResponse(o, r) ==
    /\ ops[o].pc = "pending" /\ ops[o].kind = "createDomains"
    /\ ops' = [ops EXCEPT ![o] = Handled(@, r, createDomainsHandler(r))]

createDomainsWithWait(o, domains) ==
    /\ ops[o].pc = "idle"
    /\ ops' = [ops EXCEPT ![o] = createDomainsCall("createDomainsWithWait", domains)]

createDomainsWithWaitResponse(o, r, form) ==
    /\ ops[o].pc = "pending" /\ ops[o].kind = "createDomainsWithWait"
    /\ ops' = [ops EXCEPT ![o] = HandledWithWait(@, r, createDomainsWithWaitHandler(r), form)]

\* mutant: an interval timer, which fires again while a poll is outstanding
PollTimerInterval(o) ==
    /\ ops[o].pc \in {"delay", "polling"}
    /\ ops[o].polls < MaxPolls
    /\ ops' = [ops EXCEPT ![o] = IssuePoll(@)]

\* the timer of the inter-poll delay fires
PollTimer(o) ==
    /\ ops[o].pc = "delay"
    /\ ops' = [ops EXCEPT ![o] = IssuePoll(@)]

PollResponse(o, r, form) ==
    /\ ops[o].pc = "polling"
    /\ ops' = [ops EXCEPT ![o] = PollAnswered(@, r, form)]

importDomainCall(details) ==
    LET rec == Invoked("importDomain", details)
    IN IF ~ importDomainValid(details) THEN Deliver(rec, Throw)
       ELSE IF details.ctype # "BIND_9"
            THEN Deliver(rec, Callback(InvalidRequest, Undefined))
            ELSE authorizedRequest(rec, importDomainRequest(details))

importDomain(o, details) ==
    /\ ops[o].pc = "idle"
    /\ ops' = [ops EXCEPT ![o] = importDomainCall(details)]

importDomainResponse(o, r) ==
    /\ ops[o].pc = "pending" /\ ops[o].kind = "importDomain"
    /\ ops' = [ops EXCEPT ![o] = Handled(@, r, importDomainHandler(r))]

updateDomains(o, domains) ==
    /\ ops[o].pc = "idle"
    /\ ops' = [ops EXCEPT ![o] =
                 authorizedRequest(Invoked("updateDomains", Arg(domains, "", FALSE, "na")),
                                   updateDomainsRequest(domains))]

updateDomainsResponse(o, r) ==
    /\ ops[o].pc = "pending" /\ ops[o].kind = "updateDomains"
    /\ ops' = [ops EXCEPT ![o] = Handled(@, r, updateDomainsHandler(r))]

deleteDomains(o, domains, deleteSubdomains) ==
    /\ ops[o].pc = "idle"
    /\ ops' = [ops EXCEPT ![o] =
                 authorizedRequest(
                     Invoked("deleteDomains", Arg(domains, "", FALSE, deleteSubdomains)),
                     deleteDomainsRequest(domains, deleteSubdomains))]

\* mutant: the handler is kept on the shared client, so one answer is
\* delivered to every deleteDomains invocation in flight
deleteDomainsResponseShared(o, r) ==
    /\ ops[o].pc = "pending" /\ ops[o].kind = "deleteDomains"
    /\ ops' = [p \in Ops |->
                 IF ops[p].pc = "pending" /\ ops[p].kind = "deleteDomains"
                 THEN Handled(ops[p], r, deleteDomainsHandler(r))
                 ELSE ops[p]]

deleteDomainsResponse(o, r) ==
    /\ ops[o].pc = "pending" /\ ops[o].kind = "deleteDomains"
    /\ ops' = [ops EXCEPT ![o] = Handled(@, r, deleteDomainsHandler(r))]

\* arrays of existing domains handed to update and delete
StoredBatches ==
    { << Item(1, TRUE, TRUE, TRUE) >>,
      << Item(1, TRUE, TRUE, TRUE), Item(2, TRUE, TRUE, FALSE) >> }

Next ==
    \E o \in Ops :
        \/ getDomains(o)
        \/ \E r \in GetResponses : getDomainsResponse(o, r)
        \/ getDomain(o)
        \/ \E r \in GetResponses : getDomainResponse(o, r)
        \/ \E d \in CreateItems : createDomain(o, d)
        \/ \E r \in SubmitResponses : createDomainResponse(o, r)
        \/ \E ds \in Batches(CreateItems) : createDomains(o, ds)
        \/ \E r \in SubmitResponses : createDomainsResponse(o, r)
        \/ \E ds \in Batches(CreateItems) : createDomainsWithWait(o, ds)
        \/ \E r \in SubmitResponses, f \in ErrorForms :
              createDomainsWithWaitResponse(o, r, f)
        \/ PollTimer(o)
        \/ \E r \in PollResponses, f \in ErrorForms : PollResponse(o, r, f)
        \/ \E d \in ImportArgs : importDomain(o, d)
        \/ \E r \in SubmitResponses : importDomainResponse(o, r)
        \/ \E ds \in StoredBatches : updateDomains(o, ds)
        \/ \E r \in SubmitResponses : updateDomainsResponse(o, r)
        \/ \E ds \in StoredBatches, f \in {"omitted", "false"} :
              deleteDomains(o, ds, f)
        \/ \E r \in SubmitResponses : deleteDomainsResponse(o, r)

Spec == Init /\ [][Next]_vars

\* the transport and the timers of the event loop do not starve an invocation:
\* every armed timer fires and every outstanding poll is answered
Fairness ==
    \A o \in Ops :
        /\ WF_vars(PollTimer(o))
        /\ WF_vars(\E r \in PollResponses, f \in ErrorForms : PollResponse(o, r, f))

FairSpec == Spec /\ Fairness

\* ------------------------------------------------------------ vocabulary

\* the handler of o's own request has run
Answered(o) == ops[o].resp # NoResponse

\* the transport reported an error to o's handler
TransportFailed(o) == Answered(o) /\ Truthy(ops[o].resp.err)

\* no transport error, and a status code other than 202
Refused(o) ==
    Answered(o) /\ ~ Truthy(ops[o].resp.err) /\ ops[o].resp.code # Accepted

\* no transport error, and status code 202
AcceptedSubmission(o) ==
    Answered(o) /\ ~ Truthy(ops[o].resp.err) /\ ops[o].resp.code = Accepted

Submitters == {"createDomains", "importDomain", "updateDomains", "deleteDomains"}

\* the one invocation of the caller's callback carried exactly (err, res)
CalledWith(o, err, res) == ops[o].calls = << [err |-> err, res |-> res] >>

\* the invocation of o is over
Finished(o) == ops[o].pc \in {"done", "thrown", "crashed"}

\* ------------------------------------------------------------------ C1

\* C1: for createDomains, importDomain, updateDomains and deleteDomains, a
\* transport answer without error whose status code is not 202 makes the
\* callback's error argument the full response body, and no Status is built.
C1_RefusedReportsBody ==
    \A o \in Ops :
        ops[o].kind \in Submitters /\ Refused(o)
            => CalledWith(o, BodyVal(ops[o].resp.body), Undefined)

\* ------------------------------------------------------------------ C2

\* C2: every invocation of the caller's callback carries exactly one of a
\* non-empty error and a result, never both and never neither.
C2_ErrorOrResult ==
    \A o \in Ops :
        \A i \in 1..Len(ops[o].calls) :
            Truthy(ops[o].calls[i].err) # Truthy(ops[o].calls[i].res)

\* ------------------------------------------------------------------ C3

\* the caller of o got one outcome: an error or a result
Delivered(o) ==
    /\ ops[o].pc = "done"
    /\ Len(ops[o].calls) = 1
    /\ Truthy(ops[o].calls[1].err) # Truthy(ops[o].calls[1].res)

\* the last poll failed: the transport reported an error, or the job was not found
LastPollFailed(o) ==
    /\ ops[o].hist # << >>
    /\ \/ Truthy(ops[o].hist[Len(ops[o].hist)].err)
       \/ ops[o].hist[Len(ops[o].hist)].code # 200

\* the wait of o ended with a COMPLETED payload
EndedCompleted(o) ==
    /\ ops[o].snap.status = "COMPLETED" /\ ~ LastPollFailed(o)
    /\ Len(ops[o].calls) = 1
    /\ ~ Truthy(ops[o].calls[1].err)
    /\ ops[o].calls[1].res.t = "DomainArray"

\* the wait of o ended with an ERROR payload
EndedError(o) ==
    /\ ops[o].snap.status = "ERROR" /\ ~ LastPollFailed(o)
    /\ Len(ops[o].calls) = 1
    /\ ops[o].calls[1].err.t = "payload"
    /\ ~ Truthy(ops[o].calls[1].res)

\* the wait of o ended because its budget was used up with the job still RUNNING
EndedTimeout(o) ==
    /\ ops[o].snap.status = "RUNNING" /\ ~ LastPollFailed(o)
    /\ ops[o].running = MaxPolls + 1
    /\ CalledWith(o, TimeoutError, Undefined)

\* the wait of o ended because a poll failed
EndedPollFailure(o) ==
    /\ LastPollFailed(o)
    /\ ops[o].snap.status = "RUNNING"
    /\ Len(ops[o].calls) = 1
    /\ ops[o].calls[1].err.t \in {"transportError", "body"}
    /\ ~ Truthy(ops[o].calls[1].res)

Min(a, b) == IF a < b THEN a ELSE b

\* at most one poll is outstanding
NoOverlap(o) ==
    /\ ops[o].answered <= ops[o].polls
    /\ ops[o].polls <= ops[o].answered + 1
    /\ (ops[o].polls = ops[o].answered + 1) <=> (ops[o].pc = "polling")

\* every RUNNING snapshot was followed by one poll while the budget lasted
OnePollPerRunning(o) ==
    /\ ops[o].pc = "delay" => ops[o].running = ops[o].polls + 1 /\ ops[o].polls < MaxPolls
    /\ ops[o].pc # "delay" => ops[o].polls = Min(ops[o].running, MaxPolls)

\* a step that issues a request during a wait issues one poll, after a RUNNING
\* snapshot and with no poll outstanding; after a terminal snapshot nothing
\* about the invocation changes
PollStep(o) ==
    /\ (ops[o].waits = 1 /\ Len(ops'[o].reqs) > Len(ops[o].reqs))
         => /\ Len(ops'[o].reqs) = Len(ops[o].reqs) + 1
            /\ ops[o].snap.status = "RUNNING"
            /\ ops[o].polls = ops[o].answered
    /\ (ops[o].waits = 1 /\ ops[o].snap.status \in {"COMPLETED", "ERROR"})
         => ops'[o] = ops[o]

InvalidInput(o) ==
    \/ /\ ops[o].kind \in {"createDomain", "createDomains", "createDomainsWithWait"}
       /\ \E i \in 1..Len(ops[o].arg.items) :
             ~ ops[o].arg.items[i].name \/ ~ ops[o].arg.items[i].emailAddress
    \/ /\ ops[o].kind = "importDomain"
       /\ ops[o].arg.ctype = "" \/ ~ ops[o].arg.contents

\* C5: a domain lacking name or emailAddress at any position of the batch, or
\* import details lacking contentType or contents, make the operation fail with
\* a validation error, and no authorizedRequest call is issued.
C5_InvalidInputIssuesNoRequest ==
    \A o \in Ops :
        InvalidInput(o) => ops[o].pc = "thrown" /\ ops[o].reqs = << >>

\* a batch whose second domain is the incomplete one, and an import without contents
C5_Witness ==
    \E o, p \in Ops :
        /\ ops[o].kind = "createDomains" /\ ops[o].pc = "thrown"
        /\ Len(ops[o].arg.items) = 2
        /\ ops[o].arg.items[1].name /\ ops[o].arg.items[1].emailAddress
        /\ ~ ops[o].arg.items[2].emailAddress
        /\ ops[p].kind = "importDomain" /\ ops[p].pc = "thrown"
        /\ ops[p].arg.ctype = "BIND_9"

\* ------------------------------------------------------------------ C6

\* C6: a transport error reaches the caller's callback as its error argument,
\* unchanged and alone; no Status or Domain is built and no wait is started.
C6_TransportErrorPropagated ==
    \A o \in Ops :
        /\ TransportFailed(o)
             => /\ CalledWith(o, ops[o].resp.err, Undefined)
                /\ ops[o].waits = 0
                /\ Len(ops[o].reqs) = 1
        /\ (ops[o].hist # << >> /\ Truthy(ops[o].hist[Len(ops[o].hist)].err))
             => CalledWith(o, ops[o].hist[Len(ops[o].hist)].err, Undefined)

\* the submission of a createDomainsWithWait failed in the transport
C6_Witness ==
    \E o \in Ops :
        /\ ops[o].kind = "createDomainsWithWait"
        /\ TransportFailed(o)
        /\ ops[o].resp.err = TransportError(2)
        /\ ops[o].pc = "done"

\* ------------------------------------------------------------------ C7

\* C7: a wait that ends in ERROR gives the callback exactly the snapshot's
\* error payload and no domains; one that ends in COMPLETED gives it no error
\* and one Domain per element of response.domains, in order.
C7_WaitOutcomeWhole ==
    \A o \in Ops :
        (ops[o].kind = "createDomainsWithWait" /\ ops[o].resolved = 1)
            => /\ ops[o].snap.status = "ERROR"
                    => /\ Len(ops[o].calls) = 1
                       /\ ops[o].calls[1].err.t = "payload"
                       /\ ops[o].calls[1].err.p = ops[o].snap.error
                       /\ ops[o].calls[1].res = Undefined
               /\ ops[o].snap.status = "COMPLETED"
                    => /\ Len(ops[o].calls) = 1
                       /\ ops[o].calls[1].err = Undefined
                       /\ ops[o].calls[1].res.t = "DomainArray"
                       /\ ops[o].snap.resp = "domains"
                            => ops[o].calls[1].res.l = ops[o].snap.respDomains

\* one wait ended COMPLETED with two domains, another ended in ERROR
C7_Witness ==
    \E o, p \in Ops :
        /\ ops[o].resolved = 1 /\ ops[o].snap.status = "COMPLETED"
        /\ ops[o].snap.respDomains = << 2, 1 >>
        /\ ops[o].polls > 0
        /\ ops[p].resolved = 1 /\ ops[p].snap.status = "ERROR"
        /\ ops[p].snap.error = 2

\* ------------------------------------------------------------------ C8

\* a step changes the record of one invocation only
IsolatedStep ==
    \A o, p \in Ops : (o # p /\ ops'[o] # ops[o]) => ops'[p] = ops[p]

\* what two finished invocations did is the same whenever their operation,
\* arguments and transport answers are the same
Determined ==
    \A o, p \in Ops :
        ( /\ Finished(o) /\ Finished(p)
          /\ ops[o].kind = ops[p].kind
          /\ ops[o].arg = ops[p].arg
          /\ ops[o].resp = ops[p].resp
          /\ ops[o].hist = ops[p].hist )
            => /\ ops[o].calls = ops[p].calls
               /\ ops[o].reqs = ops[p].reqs
               /\ ops[o].pc = ops[p].pc

C9_StagesOrdered ==
    \A o \in Ops :
        ops[o].kind = "createDomainsWithWait"
            => /\ ops[o].waits <= 1
               /\ ops[o].waits = 1 => AcceptedSubmission(o)
               /\ ops[o].polls > 0 => ops[o].waits = 1
               /\ Len(ops[o].calls) <= 1
               /\ ops[o].calls # << >>
                    => \/ Answered(o) /\ ~ AcceptedSubmission(o)
                       \/ ops[o].waits = 1 /\ ops[o].resolved = 1

\* submitted, accepted, polled once, and the outcome handed to the caller
C9_Witness ==
    \E o \in Ops :
        /\ ops[o].kind = "createDomainsWithWait"
        /\ AcceptedSubmission(o)
        /\ ops[o].waits = 1 /\ ops[o].polls = 1 /\ ops[o].resolved = 1
        /\ Len(ops[o].calls) = 1

\* ------------------------------------------------------------------ C10

\* C10: createDomain reports an error only when createDomains reported one:
\* whenever the submission of a valid single domain is accepted, its callback
\* is invoked with no error and with the result for that domain.
C10_createDomainAccepted ==
    \A o \in Ops :
        (ops[o].kind = "createDomain" /\ AcceptedSubmission(o))
            => /\ Len(ops[o].calls) = 1
               /\ ~ Truthy(ops[o].calls[1].err)
               /\ Truthy(ops[o].calls[1].res)

====
